---- MODULE Spec2Model ----
(***************************************************************************)
(* The embedding service of app.py: a process-wide model handle, a         *)
(* public.memory table reached through one psycopg2 connection per         *)
(* request, and five request handlers (health, embed, db_query,            *)
(* mem_similarity, mem_crud).  A handler is split at the statements that   *)
(* reach the database (connect / execute / commit).  The handlers hold no  *)
(* await, so one process runs them one at a time (Spec); processes that    *)
(* share the database interleave at those statements (SpecConcurrent).     *)
(***************************************************************************)
EXTENDS Integers, Sequences, FiniteSets, TLC

\* ------------------------------------------------------------ bounds
MaxRequests == 2      \* requests served in one behaviour
MaxId == 2            \* ids the table's sequence hands out
MaxClock == 2         \* readings of datetime.now()
MaxTopK == 2          \* largest top_k a caller sends

Workers == {"w1", "w2"}

\* ------------------------------------------------------ configuration
MODEL_NAME == "all-mpnet-base-v2"

None == -1            \* Python's None in an Optional[int] / Optional[datetime]
NoneStr == "None"     \* Python's None in an Optional[str] / Optional[List[str]]

\* ---------------------------------------------------- the embedding
\* model.encode(text).tolist(): a fixed text -> vector table.  The vectors
\* are unit vectors, two texts ("b", "d") share one vector.
Embed(text) ==
    CASE text = "a" -> <<1, 0>>
      [] text = "b" -> <<0, 1>>
      [] text = "c" -> <<-1, 0>>
      [] text = "d" -> <<0, 1>>
      [] OTHER      -> <<0, -1>>

\* embedding <=> vector: pgvector's cosine distance, 1 - cos(u, v); on unit
\* vectors the cosine is the dot product.
Distance(u, v) == 1 - (u[1] * v[1] + u[2] * v[2])

\* ------------------------------------------------------- the records
\* class MemoryRecord, with the fields the callers of this model vary.
MemoryRecord(id, content, created_at, updated_at) ==
    [id |-> id, title |-> "t", content |-> content, scope |-> "global",
     project |-> NoneStr, category |-> NoneStr, tags |-> NoneStr,
     source |-> NoneStr, priority |-> 0, status |-> "active",
     usage_count |-> 0, created_at |-> created_at,
     updated_at |-> updated_at, last_used_at |-> None]

\* select_columns of similarity_memory_search
select_columns ==
    {"id", "title", "content", "scope", "project", "category", "tags",
     "source", "priority", "status", "usage_count", "created_at",
     "updated_at", "last_used_at"}

\* the columns of public.memory
TableColumns == select_columns \cup {"embedding"}


\* ------------------------------------------------- raw query statements
\* A statement is the sequence of its tokens; " " is white space.
SelectAll == <<"SELECT", "*", "FROM", "memory">>
SelectAllLower == <<" ", "select", "*", "from", "memory", " ">>
WithSelect ==
    <<"WITH", "t", "AS", "(", "SELECT", "*", "FROM", "memory", ")",
      "SELECT", "*", "FROM", "t">>
Malformed == <<"SELEC", "*", "FROM", "memory">>
UpdateContent(text, idToken) ==
    <<"UPDATE", "memory", "SET", "content", "=", text,
      "WHERE", "id", "=", idToken>>

OtherQueries == {SelectAll, SelectAllLower, WithSelect, Malformed}
WriteQueries == {UpdateContent("c", "1")}
RawQueries == OtherQueries \cup WriteQueries

\* str.strip(): leading and trailing white space removed
RECURSIVE LStrip(_)
LStrip(q) == IF q # <<>> /\ Head(q) = " " THEN LStrip(Tail(q)) ELSE q
RECURSIVE RStrip(_)
RStrip(q) ==
    IF q # <<>> /\ q[Len(q)] = " " THEN RStrip(SubSeq(q, 1, Len(q) - 1)) ELSE q
Strip(q) == RStrip(LStrip(q))

\* str.upper(), token by token
UpperToken(tok) ==
    CASE tok = "select" -> "SELECT"
      [] tok = "from"   -> "FROM"
      [] tok = "memory" -> "MEMORY"
      [] tok = "t"      -> "T"
      [] tok = "c"      -> "C"
      [] OTHER          -> tok
Upper(q) == [i \in 1..Len(q) |-> UpperToken(q[i])]

\* request.query.strip().upper().startswith("SELECT")
StartsWithSelect(q) == Upper(Strip(q)) # <<>> /\ Upper(Strip(q))[1] = "SELECT"

\* What the storage engine makes of a statement handed to cur.execute:
\* SQL keywords are case-insensitive and surrounding white space is ignored.
Keyword(q) == IF Strip(q) = <<>> THEN "" ELSE Upper(Strip(q))[1]
StatementKind(q) ==
    CASE Keyword(q) \in {"SELECT", "WITH"} -> "read"
      [] Keyword(q) = "UPDATE"             -> "write"
      [] OTHER                             -> "error"
IdOfToken(tok) == CASE tok = "1" -> 1 [] tok = "2" -> 2 [] OTHER -> None
TargetId(q) == IdOfToken(Strip(q)[10])
TargetText(q) == Strip(q)[6]
TargetColumn(q) == Strip(q)[4]

\* ---------------------------------------------------------------- state
VARIABLES
    model,     \* the global model handle: NoneStr until load_model has run
    table,     \* public.memory as committed: id -> row
    torn,      \* ids of the rows whose content and embedding were last
               \* written by different statements
    nextId,    \* the id sequence of public.memory
    now,       \* datetime.now()
    served,    \* requests accepted so far
    rid,       \* per worker: the number of the request it took last
    pc,        \* per worker: where its handler stands
    op,        \* per worker: the endpoint being served
    arg,       \* per worker: the request body, while its handler runs
    emb,       \* per worker: the handler's local embedding
    conn,      \* per worker: the handler's connection, "none" / "open" / "closed"
    pend,      \* per worker: the uncommitted row version of its transaction
    cur,       \* per worker: cursor results (rowcount, RETURNING id)
    resp       \* per worker: the response sent: status code, JSON type, body

vars == <<model, table, torn, nextId, now, served, rid, pc, op, arg, emb,
          conn, pend, cur, resp>>

NoArg == [record |-> MemoryRecord(None, "", None, None), text |-> "",
          top_k |-> 0, query |-> <<>>]
NoCur == [rowcount |-> None, record_id |-> None]
NoResp == [code |-> 0, json |-> "", body |-> ""]

\* ------------------------------------------------------ shared pieces
\* A worker takes the next request.
Accept(w, endpoint) ==
    /\ pc[w] \in {"idle", "done"}
    /\ served < MaxRequests
    /\ served' = served + 1
    /\ rid' = [rid EXCEPT ![w] = served + 1]
    /\ op' = [op EXCEPT ![w] = endpoint]

\* The handler goes on to its next statement on the database.
Continue(w, step, body, embedding) ==
    /\ pc' = [pc EXCEPT ![w] = step]
    /\ arg' = [arg EXCEPT ![w] = body]
    /\ emb' = [emb EXCEPT ![w] = embedding]
    /\ resp' = [resp EXCEPT ![w] = NoResp]

\* return ... / raise HTTPException(status_code=..., detail=...): the
\* handler's frame (its arguments and locals) is gone, the response stays.
Respond(w, code, json, body) ==
    /\ pc' = [pc EXCEPT ![w] = "done"]
    /\ resp' = [resp EXCEPT ![w] = [code |-> code, json |-> json, body |-> body]]
    /\ arg' = [arg EXCEPT ![w] = NoArg]
    /\ emb' = [emb EXCEPT ![w] = <<>>]
    /\ cur' = [cur EXCEPT ![w] = NoCur]
    /\ pend' = [pend EXCEPT ![w] = {}]

\* detail=f"<prefix>: {e}": the prefix and the exception it quotes
Detail(prefix, e) == [detail |-> prefix, cause |-> e]
ModelNotLoaded == "Model is not yet loaded or failed to load."

\* `model is None`
\* (as it would be with the check left out)
ModelIsNoneNever(m) == FALSE
ModelIsNone(m) == m = NoneStr

\* a row another open transaction has written is locked until that
\* transaction ends
Locked(w, id) == \E v \in Workers \ {w} : \E p \in pend[v] : p.id = id

\* conn.commit(): the transaction's row version becomes the stored row
Commit(tbl, p) ==
    [i \in DOMAIN tbl \cup {v.id : v \in p} |->
        IF \E v \in p : v.id = i THEN (CHOOSE v \in p : v.id = i).row
        ELSE tbl[i]]

\* a statement that sets one of content and embedding without the other
\* leaves the row with a content and an embedding of different statements
Tears(columns) == ("content" \in columns) # ("embedding" \in columns)
CommitTorn(t, p) ==
    (t \ {v.id : v \in {x \in p : {"content", "embedding"} \subseteq x.columns}})
        \cup {v.id : v \in {x \in p : Tears(x.columns)}}

\* the connection's fate when the handler ends: closed on the success path
\* (conn.close()), left as it is when an exception reaches the except clause
ConnAfter(succeeded, c) == IF succeeded THEN "closed" ELSE c

\* --------------------------------------------------------- startup
\* load_model: the startup event sets the global handle once.
load_model ==
    /\ model = NoneStr
    /\ model' = "SentenceTransformer"
    /\ UNCHANGED <<table, torn, nextId, now, served, rid, pc, op, arg, emb,
                   conn, pend, cur, resp>>

\* the wall clock advances
Tick ==
    /\ now < MaxClock
    /\ now' = now + 1
    /\ UNCHANGED <<model, table, torn, nextId, served, rid, pc, op, arg,
                   emb, conn, pend, cur, resp>>

\* --------------------------------------------------------- GET /health
HealthBody(m) ==
    [status |-> "ok", model_loaded |-> ~ModelIsNone(m), model_name |-> MODEL_NAME]

health_check(w) ==
    /\ Accept(w, "health")
    /\ Respond(w, 200, "object", HealthBody(model))
    /\ conn' = [conn EXCEPT ![w] = "none"]
    /\ UNCHANGED <<model, table, torn, nextId, now>>

\* --------------------------------------------------------- POST /embed
EmbedError == "Error during embedding generation"

EmbedOutcome(m, text, encodes) ==
    IF ModelIsNone(m) THEN [code |-> 503, body |-> Detail(ModelNotLoaded, "")]
    ELSE IF ~encodes THEN [code |-> 500, body |-> Detail(EmbedError, "encode")]
    ELSE [code |-> 200, body |-> [embedding |-> Embed(text), model |-> MODEL_NAME]]

generate_embedding(w, text, encodes) ==
    /\ Accept(w, "embed")
    /\ Respond(w, EmbedOutcome(model, text, encodes).code, "object",
                  EmbedOutcome(model, text, encodes).body)
    /\ conn' = [conn EXCEPT ![w] = "none"]
    /\ UNCHANGED <<model, table, torn, nextId, now>>

\* ------------------------------------------------------ POST /db_query
QueryError == "Error during query execution"

\* conn = get_db_connection()
query_memory_connect(w, q, connects) ==
    /\ Accept(w, "db_query")
    /\ IF connects
       THEN /\ conn' = [conn EXCEPT ![w] = "open"]
            /\ Continue(w, "execute", [NoArg EXCEPT !.query = q], <<>>)
            /\ UNCHANGED <<cur, pend>>
       ELSE /\ conn' = [conn EXCEPT ![w] = "none"]
            /\ Respond(w, 500, "object", Detail(QueryError, "connect"))
    /\ UNCHANGED <<model, table, torn, nextId, now>>

\* [dict(zip(colnames, row)) for row in cur.fetchall()] of SELECT * FROM memory
RECURSIVE RowsOf(_, _)
RowsOf(tbl, ids) ==
    IF ids = {} THEN <<>>
    ELSE LET i == CHOOSE x \in ids : \A y \in ids : x <= y
         IN <<tbl[i]>> \o RowsOf(tbl, ids \ {i})
FetchAll(tbl) == RowsOf(tbl, DOMAIN tbl)

\* the row UPDATE memory SET <column> = <text> leaves
ColumnSet(old, column, text) == [old EXCEPT ![column] = text]

\* cur.execute(request.query) and the branch on the statement's text
query_memory_execute(w, ok) ==
    LET q == arg[w].query
        kind == StatementKind(q)
    IN
    /\ pc[w] = "execute" /\ op[w] = "db_query"
    /\ IF ~ok \/ kind = "error"
       THEN /\ Respond(w, 500, "object", Detail(QueryError, "execute"))
            /\ conn' = [conn EXCEPT ![w] = ConnAfter(FALSE, conn[w])]
       ELSE IF StartsWithSelect(q)
       THEN /\ Respond(w, 200, "array", FetchAll(table))
            /\ conn' = [conn EXCEPT ![w] = ConnAfter(TRUE, conn[w])]
       ELSE IF kind = "read"
       THEN /\ cur' = [cur EXCEPT ![w].rowcount = Cardinality(DOMAIN table)]
            /\ pc' = [pc EXCEPT ![w] = "commit"]
            /\ UNCHANGED <<pend, conn, resp, arg, emb>>
       ELSE /\ ~Locked(w, TargetId(q))
            /\ IF TargetId(q) \in DOMAIN table
               THEN /\ pend' = [pend EXCEPT ![w] =
                          {[id |-> TargetId(q),
                            row |-> ColumnSet(table[TargetId(q)], TargetColumn(q), TargetText(q)),
                            columns |-> {TargetColumn(q)}]}]
                    /\ cur' = [cur EXCEPT ![w].rowcount = 1]
               ELSE /\ pend' = [pend EXCEPT ![w] = {}]
                    /\ cur' = [cur EXCEPT ![w].rowcount = 0]
            /\ pc' = [pc EXCEPT ![w] = "commit"]
            /\ UNCHANGED <<conn, resp, arg, emb>>
    /\ UNCHANGED <<model, table, torn, nextId, now, served, rid, op>>

WriteResult(rowcount) == [status |-> "success", rows_affected |-> rowcount]

\* conn.commit(); results = {...}; cur.close(); conn.close(); return results
query_memory_commit(w, ok) ==
    /\ pc[w] = "commit" /\ op[w] = "db_query"
    /\ conn' = [conn EXCEPT ![w] = ConnAfter(ok, conn[w])]
    /\ IF ok
       THEN /\ table' = Commit(table, pend[w])
            /\ torn' = CommitTorn(torn, pend[w])
            /\ Respond(w, 200, "object", WriteResult(cur[w].rowcount))
       ELSE /\ Respond(w, 500, "object", Detail(QueryError, "commit"))
            /\ UNCHANGED <<table, torn>>
    /\ UNCHANGED <<model, nextId, now, served, rid, op>>

\* -------------------------------------------------- POST /mem_similarity
SimilarityError == "Error during similarity search"

\* the model check, model.encode(request.query_text) and get_db_connection()
SimilarityPrologue(m, text, encodes, connects) ==
    IF ModelIsNone(m)
    THEN [code |-> 503, body |-> Detail(ModelNotLoaded, ""), emb |-> <<>>, conn |-> "none"]
    ELSE IF ~encodes
    THEN [code |-> 500, body |-> Detail(SimilarityError, "encode"), emb |-> <<>>, conn |-> "none"]
    ELSE IF ~connects
    THEN [code |-> 500, body |-> Detail(SimilarityError, "connect"), emb |-> Embed(text), conn |-> "none"]
    ELSE [code |-> 0, body |-> "", emb |-> Embed(text), conn |-> "open"]

similarity_memory_search_connect(w, text, top_k, encodes, connects) ==
    LET o == SimilarityPrologue(model, text, encodes, connects) IN
    /\ Accept(w, "mem_similarity")
    /\ conn' = [conn EXCEPT ![w] = o.conn]
    /\ IF o.code = 0
       THEN /\ Continue(w, "execute", [NoArg EXCEPT !.text = text, !.top_k = top_k], o.emb)
            /\ UNCHANGED <<cur, pend>>
       ELSE Respond(w, o.code, "object", o.body)
    /\ UNCHANGED <<model, table, torn, nextId, now>>

\* ORDER BY similarity: the orders of the rows' ids the engine may produce
Rankings(tbl, v) ==
    {s \in [1..Cardinality(DOMAIN tbl) -> DOMAIN tbl] :
        /\ \A i, j \in DOMAIN s : i # j => s[i] # s[j]
        /\ \A i, j \in DOMAIN s :
              i < j => Distance(tbl[s[i]].embedding, v) <= Distance(tbl[s[j]].embedding, v)}

\* LIMIT top_k
Limit(s, k) == SubSeq(s, 1, IF k < Len(s) THEN k ELSE Len(s))

\* (as it would be with SELECT *)
ProjectionAllColumns(row, v) ==
    [c \in TableColumns \cup {"similarity"} |->
        IF c = "similarity" THEN Distance(row.embedding, v) ELSE row[c]]

\* SELECT {select_columns}, embedding <=> ... AS similarity
Projection(row, v) ==
    [c \in select_columns \cup {"similarity"} |->
        IF c = "similarity" THEN Distance(row.embedding, v) ELSE row[c]]

SearchResults(tbl, v, s, k) ==
    [i \in 1..Len(Limit(s, k)) |-> Projection(tbl[Limit(s, k)[i]], v)]

\* cur.execute(query); fetchall; cur.close(); conn.close(); return results.
\* The engine rejects a negative LIMIT.
similarity_memory_search_execute(w, ok) ==
    /\ pc[w] = "execute" /\ op[w] = "mem_similarity"
    /\ IF ~ok \/ arg[w].top_k < 0
       THEN /\ Respond(w, 500, "object", Detail(SimilarityError, "execute"))
            /\ conn' = [conn EXCEPT ![w] = ConnAfter(FALSE, conn[w])]
       ELSE /\ \E s \in Rankings(table, emb[w]) :
                  Respond(w, 200, "array", SearchResults(table, emb[w], s, arg[w].top_k))
            /\ conn' = [conn EXCEPT ![w] = ConnAfter(TRUE, conn[w])]
    /\ UNCHANGED <<model, table, torn, nextId, now, served, rid, op>>

\* ------------------------------------------------------ POST /mem_crud
UpsertError == "Error during insert/update memory"

\* (as it would be with the title embedded)
EmbeddedTextTitle(record) == record.title

\* the text insert_update_memory embeds
EmbeddedText(record) == record.content

\* (as it would be with the connection opened before the encoding)
UpsertPrologueConnectFirst(m, record, encodes, connects) ==
    IF ModelIsNone(m)
    THEN [code |-> 503, body |-> Detail(ModelNotLoaded, ""), emb |-> <<>>, conn |-> "none"]
    ELSE IF ~connects
    THEN [code |-> 500, body |-> Detail(UpsertError, "connect"), emb |-> <<>>, conn |-> "none"]
    ELSE IF ~encodes
    THEN [code |-> 500, body |-> Detail(UpsertError, "encode"), emb |-> <<>>, conn |-> "open"]
    ELSE [code |-> 0, body |-> "", emb |-> Embed(EmbeddedText(record)), conn |-> "open"]

\* the model check, model.encode(record.content) and get_db_connection()
UpsertPrologue(m, record, encodes, connects) ==
    IF ModelIsNone(m)
    THEN [code |-> 503, body |-> Detail(ModelNotLoaded, ""), emb |-> <<>>, conn |-> "none"]
    ELSE IF ~encodes
    THEN [code |-> 500, body |-> Detail(UpsertError, "encode"), emb |-> <<>>, conn |-> "none"]
    ELSE IF ~connects
    THEN [code |-> 500, body |-> Detail(UpsertError, "connect"),
          emb |-> Embed(EmbeddedText(record)), conn |-> "none"]
    ELSE [code |-> 0, body |-> "", emb |-> Embed(EmbeddedText(record)), conn |-> "open"]

insert_update_memory_connect(w, record, encodes, connects) ==
    LET o == UpsertPrologue(model, record, encodes, connects) IN
    /\ Accept(w, "mem_crud")
    /\ conn' = [conn EXCEPT ![w] = o.conn]
    /\ IF o.code = 0
       THEN /\ Continue(w, "execute", [NoArg EXCEPT !.record = record], o.emb)
            /\ UNCHANGED <<cur, pend>>
       ELSE Respond(w, o.code, "object", o.body)
    /\ UNCHANGED <<model, table, torn, nextId, now>>

\* (as it would be with the insert branch taken whatever the id)
IsInsertAlways(record) == TRUE

\* `record.id is None`
IsInsert(record) == record.id = None

\* `record.x if record.x else datetime.now()`
OrNow(t, clock) == IF t # None THEN t ELSE clock

\* the columns the INSERT names, and those the UPDATE sets
InsertColumns == TableColumns \ {"id"}
\* (as they would be with the embedding left out of the SET list, or with
\* created_at added to it)
UpdateColumnsNoEmbedding == TableColumns \ {"id", "created_at", "embedding"}
UpdateColumnsWithCreated == TableColumns \ {"id"}
UpdateColumns == TableColumns \ {"id", "created_at"}

\* the value the handler binds to a column's placeholder
InsertValue(c, record, embedding, clock) ==
    CASE c = "embedding"  -> embedding
      [] c = "created_at" -> OrNow(record.created_at, clock)
      [] c = "updated_at" -> OrNow(record.updated_at, clock)
      [] OTHER            -> record[c]
UpdateValue(c, record, embedding, clock) ==
    CASE c = "embedding"  -> embedding
      [] c = "updated_at" -> OrNow(record.updated_at, clock)
      [] OTHER            -> record[c]

\* the row INSERT INTO public.memory (...) VALUES (...) RETURNING id adds
InsertedRow(id, record, embedding, clock) ==
    [c \in TableColumns |->
        IF c \in InsertColumns THEN InsertValue(c, record, embedding, clock) ELSE id]

\* the row UPDATE public.memory SET ... WHERE id = %s leaves
UpdatedRow(old, record, embedding, clock) ==
    [c \in TableColumns |->
        IF c \in UpdateColumns THEN UpdateValue(c, record, embedding, clock) ELSE old[c]]

\* cur.execute(query, (...)) of either branch, and fetchone of the insert
insert_update_memory_execute(w, ok) ==
    LET record == arg[w].record IN
    /\ pc[w] = "execute" /\ op[w] = "mem_crud"
    /\ IF ~ok
       THEN /\ Respond(w, 500, "object", Detail(UpsertError, "execute"))
            /\ conn' = [conn EXCEPT ![w] = ConnAfter(FALSE, conn[w])]
            /\ UNCHANGED nextId
       ELSE IF IsInsert(record)
       THEN /\ nextId <= MaxId
            /\ nextId' = nextId + 1
            /\ pend' = [pend EXCEPT ![w] =
                  {[id |-> nextId,
                    row |-> InsertedRow(nextId, record, emb[w], now),
                    columns |-> InsertColumns]}]
            /\ cur' = [cur EXCEPT ![w] = [rowcount |-> 1, record_id |-> nextId]]
            /\ pc' = [pc EXCEPT ![w] = "commit"]
            /\ UNCHANGED <<conn, resp, arg, emb>>
       ELSE /\ ~Locked(w, record.id)
            /\ IF record.id \in DOMAIN table
               THEN /\ pend' = [pend EXCEPT ![w] =
                          {[id |-> record.id,
                            row |-> UpdatedRow(table[record.id], record, emb[w], now),
                            columns |-> UpdateColumns]}]
                    /\ cur' = [cur EXCEPT ![w].rowcount = 1]
               ELSE /\ pend' = [pend EXCEPT ![w] = {}]
                    /\ cur' = [cur EXCEPT ![w].rowcount = 0]
            /\ pc' = [pc EXCEPT ![w] = "commit"]
            /\ UNCHANGED <<conn, resp, arg, emb, nextId>>
    /\ UNCHANGED <<model, table, torn, now, served, rid, op>>

\* results of the two branches
UpsertResult(record, c) ==
    IF IsInsert(record)
    THEN [status |-> "success", id |-> c.record_id, operation |-> "insert"]
    ELSE [status |-> "success", id |-> record.id, operation |-> "update",
          rows_affected |-> c.rowcount]

\* conn.commit(); results = {...}; cur.close(); conn.close(); return results
insert_update_memory_commit(w, ok) ==
    /\ pc[w] = "commit" /\ op[w] = "mem_crud"
    /\ conn' = [conn EXCEPT ![w] = ConnAfter(ok, conn[w])]
    /\ IF ok
       THEN /\ table' = Commit(table, pend[w])
            /\ torn' = CommitTorn(torn, pend[w])
            /\ Respond(w, 200, "object", UpsertResult(arg[w].record, cur[w]))
       ELSE /\ Respond(w, 500, "object", Detail(UpsertError, "commit"))
            /\ UNCHANGED <<table, torn>>
    /\ UNCHANGED <<model, nextId, now, served, rid, op>>

\* ------------------------------------------------------ initial states
\* The table outlives the process: at startup it is empty, or holds a row an
\* earlier run of the service inserted (at time 0, with no timestamps given).
SeededRow == InsertedRow(1, MemoryRecord(None, "a", None, None), Embed("a"), 0)
InitialTables == {<<>>, <<SeededRow>>}

Init ==
    /\ model = NoneStr
    /\ table \in InitialTables
    /\ torn = {}
    /\ nextId = Cardinality(DOMAIN table) + 1
    /\ now = 1
    /\ served = 0
    /\ rid = [w \in Workers |-> 0]
    /\ pc = [w \in Workers |-> "idle"]
    /\ op = [w \in Workers |-> "none"]
    /\ arg = [w \in Workers |-> NoArg]
    /\ emb = [w \in Workers |-> <<>>]
    /\ conn = [w \in Workers |-> "none"]
    /\ pend = [w \in Workers |-> {}]
    /\ cur = [w \in Workers |-> NoCur]
    /\ resp = [w \in Workers |-> NoResp]

\* ------------------------------------------------------ specification
Ids == 1..MaxId
SuppliedTimes == {None, 0}
Records(times) ==
    {MemoryRecord(id, content, created_at, updated_at) :
        id \in {None} \cup Ids, content \in {"a", "b"},
        created_at \in times, updated_at \in times}
TopKs == -1..MaxTopK

Requests(workers, queries, records, topks) ==
    \E w \in workers :
        \/ health_check(w)
        \/ \E text \in {"a"}, encodes \in BOOLEAN : generate_embedding(w, text, encodes)
        \/ \E q \in queries, connects \in BOOLEAN : query_memory_connect(w, q, connects)
        \/ \E ok \in BOOLEAN : query_memory_execute(w, ok)
        \/ \E ok \in BOOLEAN : query_memory_commit(w, ok)
        \/ \E text \in {"a", "c"}, top_k \in topks, encodes, connects \in BOOLEAN :
              similarity_memory_search_connect(w, text, top_k, encodes, connects)
        \/ \E ok \in BOOLEAN : similarity_memory_search_execute(w, ok)
        \/ \E record \in records, encodes, connects \in BOOLEAN :
              insert_update_memory_connect(w, record, encodes, connects)
        \/ \E ok \in BOOLEAN : insert_update_memory_execute(w, ok)
        \/ \E ok \in BOOLEAN : insert_update_memory_commit(w, ok)

Next == load_model \/ Tick \/ Requests({"w1"}, RawQueries, Records(SuppliedTimes), TopKs)

\* one request at a time, raw statements of every kind
Spec == Init /\ [][Next]_vars

NextConcurrent == load_model \/ Requests(Workers, {SelectAll, WithSelect}, Records({None}), {MaxTopK})

\* two workers whose handlers interleave at their database statements, raw
\* statements that write nothing
SpecConcurrent == Init /\ [][NextConcurrent]_vars

\* ---------------------------------------------------------------- claims
\* worker w takes a request in this step
Took(w) == rid'[w] # rid[w]
\* worker w's handler, started in an earlier step, ends in this step
Finished(w) == pc[w] \in {"execute", "commit"} /\ pc'[w] = "done"
\* worker w has answered a request of this endpoint with this status code
Answered(w, endpoint, code) ==
    pc[w] = "done" /\ op[w] = endpoint /\ resp[w].code = code
EmbeddingOps == {"embed", "mem_similarity", "mem_crud"}
Whole(row) == row.embedding = Embed(row.content)

\* C1 (as stated): in every reachable state, whatever the operations that
\* led to it (raw query included), every stored record's embedding equals
\* Embed of its content.
C1_EveryRecordConsistent == \A i \in DOMAIN table : Whole(table[i])

\* C1 (amended): every stored record whose content or embedding no raw
\* write statement has set since its last upsert has embedding =
\* Embed(content), in the table and in the rows a raw SELECT returns; and
\* only the commit of a raw query ever leaves a record with a content and an
\* embedding from different statements.
C1_ConsistentUnlessRawWrite ==
    /\ [](\A i \in DOMAIN table : i \notin torn => Whole(table[i]))
    /\ [][\A w \in Workers :
            /\ torn' \ torn # {} => \E v \in Workers : op[v] = "db_query" /\ pc[v] = "commit"
            /\ (Finished(w) /\ op[w] = "db_query" /\ resp'[w].code = 200
                    /\ resp'[w].json = "array")
               => \A k \in DOMAIN resp'[w].body :
                      resp'[w].body[k].id \notin torn => Whole(resp'[w].body[k])]_vars

\* C1 witness: an update has replaced the content of a stored record and the
\* record carries the embedding of the new content.
C1_UpdatedRecordStored ==
    \E w \in Workers :
        /\ Answered(w, "mem_crud", 200)
        /\ resp[w].body.operation = "update"
        /\ resp[w].body.rows_affected = 1
        /\ table[resp[w].body.id].content = "b"
        /\ table[resp[w].body.id].embedding = Embed("b")

\* C2: a request to an embedding-dependent endpoint taken while the model is
\* not loaded ends at once with 503, opens no connection and changes no
\* stored record; a health check always answers 200 with model_loaded equal
\* to whether the model is loaded; once loaded the model stays loaded and no
\* handler answers 503.
C2_ModelUnavailableBeforeLoad ==
    [][\A w \in Workers :
        /\ (Took(w) /\ model = NoneStr /\ op'[w] \in EmbeddingOps)
           => /\ pc'[w] = "done"
              /\ resp'[w].code = 503
              /\ conn'[w] = "none"
              /\ table' = table /\ pend' = pend /\ nextId' = nextId
        /\ (Took(w) /\ op'[w] = "health")
           => /\ resp'[w].code = 200
              /\ resp'[w].body.model_loaded = (model # NoneStr)
        /\ model # NoneStr
           => /\ model' # NoneStr
              /\ (Took(w) \/ Finished(w)) => resp'[w].code # 503]_vars

\* C2 witness: an upsert was answered 503 while the model is still unloaded.
C2_UpsertRefusedBeforeLoad ==
    \E w \in Workers : Answered(w, "mem_crud", 503) /\ model = NoneStr

\* C3: an upsert whose encoding raises ends at once with a 500 that quotes
\* the failure, with no connection opened, no row version written, no id
\* drawn and the table as it was; no later step of a handler reports an
\* encoding failure.
C3_EmbeddingFailureTouchesNoStorage ==
    [][\A w \in Workers :
        /\ (Took(w) /\ op'[w] = "mem_crud" /\ resp'[w].code = 500
                /\ resp'[w].body.cause = "encode")
           => /\ pc'[w] = "done"
              /\ conn'[w] = "none"
              /\ pend'[w] = {}
              /\ table' = table /\ nextId' = nextId
        /\ (Finished(w) /\ op[w] = "mem_crud" /\ resp'[w].code = 500)
           => resp'[w].body.cause # "encode"]_vars

\* C3 witness: an upsert was answered 500 for a failed encoding while the
\* table holds a record.
C3_UpsertEncodingFailed ==
    \E w \in Workers :
        /\ Answered(w, "mem_crud", 500)
        /\ resp[w].body.cause = "encode"
        /\ DOMAIN table # {}

\* C4 (as stated): once a handler has returned or raised, the connection it
\* acquired is not open.
C4_ConnectionReleasedOnEveryExit ==
    \A w \in Workers : pc[w] = "done" => conn[w] # "open"

\* C5: a successful upsert without an id adds exactly one row, under an id
\* no row had, and reports that id; a successful upsert with an id adds no
\* row, reports rows_affected of 0 or 1, and when no row has the id reports 0
\* and leaves the table as it was; ids are drawn only by upserts without an id.
C5_CreateUpdateDisjoint ==
    [][\A w \in Workers :
        /\ (Finished(w) /\ op[w] = "mem_crud" /\ resp'[w].code = 200)
           => IF arg[w].record.id = None
              THEN /\ resp'[w].body.operation = "insert"
                   /\ resp'[w].body.id \notin DOMAIN table
                   /\ DOMAIN table' = DOMAIN table \cup {resp'[w].body.id}
                   /\ \A i \in DOMAIN table : table'[i] = table[i]
              ELSE /\ resp'[w].body.operation = "update"
                   /\ resp'[w].body.id = arg[w].record.id
                   /\ resp'[w].body.rows_affected \in {0, 1}
                   /\ DOMAIN table' = DOMAIN table
                   /\ arg[w].record.id \notin DOMAIN table
                      => resp'[w].body.rows_affected = 0 /\ table' = table
        /\ nextId' # nextId
           => \E v \in Workers :
                  /\ op[v] = "mem_crud" /\ pc[v] = "execute"
                  /\ arg[v].record.id = None]_vars

\* C5 witness: an update of an id no row has was answered with success and
\* rows_affected = 0.
C5_UpdateOfMissingId ==
    \E w \in Workers :
        /\ Answered(w, "mem_crud", 200)
        /\ resp[w].body.operation = "update"
        /\ resp[w].body.rows_affected = 0

\* the rows of tbl at a distance less than d from the vector v
Closer(tbl, v, d) == {i \in DOMAIN tbl : Distance(tbl[i].embedding, v) < d}
Smaller(a, b) == IF a < b THEN a ELSE b

\* a successful search's results are min(top_k, number of rows) rows of the
\* table, in non-decreasing distance from the query vector, and no row left
\* out is strictly closer than a row returned
RankedAnswer(w) ==
    LET body == resp'[w].body
        n == Len(body)
    IN
    /\ n = Smaller(arg[w].top_k, Cardinality(DOMAIN table))
    /\ \A k \in 1..n :
          /\ body[k].id \in DOMAIN table
          /\ body[k].similarity = Distance(table[body[k].id].embedding, emb[w])
          /\ \A j \in 1..n : j < k => body[j].similarity <= body[k].similarity
          /\ \A j \in 1..n : j # k => body[j].id # body[k].id
          /\ Closer(table, emb[w], body[k].similarity) \subseteq {body[j].id : j \in 1..n}

\* C6 (as stated): every search that succeeds was asked for a positive top_k
\* (top_k is required to be positive) and returns the ranked answer.
C6_PositiveTopKRankedAnswer ==
    [][\A w \in Workers :
        (Finished(w) /\ op[w] = "mem_similarity" /\ resp'[w].code = 200)
        => arg[w].top_k > 0 /\ RankedAnswer(w)]_vars

\* C6, the part the code keeps: a search that succeeds (its top_k is then 0
\* or more) returns the ranked answer.
C6_RankedAnswerWhenAccepted ==
    [][\A w \in Workers :
        (Finished(w) /\ op[w] = "mem_similarity" /\ resp'[w].code = 200)
        => arg[w].top_k >= 0 /\ RankedAnswer(w)]_vars

\* C7 (as stated): a successful update of a row sets updated_at later than
\* the row's previous updated_at and keeps created_at and id.
C7_UpdatedAtAdvances ==
    [][\A w \in Workers :
        (Finished(w) /\ op[w] = "mem_crud" /\ resp'[w].code = 200
            /\ arg[w].record.id # None /\ resp'[w].body.rows_affected = 1)
        => LET id == arg[w].record.id IN
           /\ table'[id].updated_at > table[id].updated_at
           /\ table'[id].created_at = table[id].created_at
           /\ table'[id].id = id]_vars

\* C7 (amended): a successful update of a row sets updated_at to the
\* updated_at the record carries, and to the time the statement ran when it
\* carries none, and keeps the row's created_at and id, whatever created_at
\* the record carries.
C7_UpdatedAtSuppliedOrNow ==
    [][\A w \in Workers :
        (op[w] = "mem_crud" /\ arg[w].record.id # None)
        => LET record == arg[w].record IN
           /\ (pc[w] = "execute" /\ pc'[w] = "commit")
              => \A p \in pend'[w] :
                    /\ p.id = record.id /\ p.row.id = record.id
                    /\ p.row.created_at = table[record.id].created_at
                    /\ p.row.updated_at =
                          IF record.updated_at # None THEN record.updated_at ELSE now
           /\ (Finished(w) /\ resp'[w].code = 200)
              => /\ resp'[w].body.rows_affected = Cardinality(pend[w])
                 /\ \A p \in pend[w] :
                       /\ table'[p.id] = p.row
                       /\ table'[p.id].created_at = table[p.id].created_at]_vars

\* C7 witness: an update that carried an updated_at has left a row whose
\* updated_at is earlier than its created_at.
C7_UpdatedAtSetBack ==
    \E w \in Workers :
        /\ Answered(w, "mem_crud", 200)
        /\ resp[w].body.operation = "update"
        /\ resp[w].body.rows_affected = 1
        /\ table[resp[w].body.id].updated_at < table[resp[w].body.id].created_at

\* C8: every result of a successful search has exactly the fields of the
\* record and the distance, so no embedding; a successful upsert answers
\* status, id, operation and, for an update only, rows_affected.
C8_NoEmbeddingInResponses ==
    \A w \in Workers :
        /\ Answered(w, "mem_similarity", 200)
           => \A k \in DOMAIN resp[w].body :
                 DOMAIN resp[w].body[k] = DOMAIN NoArg.record \cup {"similarity"}
        /\ Answered(w, "mem_crud", 200)
           => DOMAIN resp[w].body =
                 IF resp[w].body.operation = "insert"
                 THEN {"status", "id", "operation"}
                 ELSE {"status", "id", "operation", "rows_affected"}

\* C8 witness: a search has returned two results.
C8_SearchReturnedRows ==
    \E w \in Workers : Answered(w, "mem_similarity", 200) /\ Len(resp[w].body) = 2

\* C9: with handlers interleaving at their database statements, every row,
\* stored or written and not yet committed, has content and embedding from
\* one statement and embedding = Embed(content); a raw SELECT returns only
\* such rows, and a search reports for each content it returns the distance
\* of that content's own embedding.
C9_NoTornRecord ==
    /\ [](/\ torn = {}
          /\ \A i \in DOMAIN table : Whole(table[i])
          /\ \A w \in Workers : \A p \in pend[w] : Whole(p.row) /\ ~Tears(p.columns))
    /\ [][\A w \in Workers :
            /\ (Finished(w) /\ op[w] = "db_query" /\ resp'[w].code = 200
                    /\ resp'[w].json = "array")
               => \A k \in DOMAIN resp'[w].body : Whole(resp'[w].body[k])
            /\ (Finished(w) /\ op[w] = "mem_similarity" /\ resp'[w].code = 200)
               => \A k \in DOMAIN resp'[w].body :
                     resp'[w].body[k].similarity =
                        Distance(Embed(resp'[w].body[k].content), emb[w])]_vars

\* C9 witness: two upserts with different contents are in flight for the
\* same id, one with its row version written and not committed, the other
\* about to execute its UPDATE.
C9_TwoUpdatesInFlight ==
    \E w, v \in Workers :
        /\ w # v
        /\ op[w] = "mem_crud" /\ pc[w] = "commit" /\ pend[w] # {}
        /\ op[v] = "mem_crud" /\ pc[v] = "execute"
        /\ arg[w].record.id # None
        /\ arg[v].record.id = arg[w].record.id
        /\ arg[v].record.content # arg[w].record.content

\* C10 (as stated): a raw statement that executes without error is answered
\* with the list of its rows when it is a read, leaving the table as it was,
\* and with {status, rows_affected} when it is a write, its effect committed.
C10_ReadsAnswerRowsWritesAnswerCount ==
    [][\A w \in Workers :
        (Finished(w) /\ op[w] = "db_query" /\ resp'[w].code = 200)
        => /\ StatementKind(arg[w].query) = "read"
              => resp'[w].json = "array" /\ table' = table
           /\ StatementKind(arg[w].query) = "write"
              => /\ resp'[w].json = "object"
                 /\ resp'[w].body = WriteResult(Cardinality(pend[w]))
                 /\ table' = Commit(table, pend[w])]_vars

====
